---- MODULE Spec2Model ----
(***************************************************************************)
(* Model of pubmed_server.py: the three tool handlers (find_articles,      *)
(* get_publication_details, get_article_statistics), the search and fetch  *)
(* layers (retrieve_article_ids, fetch_article_metadata) and the retrying  *)
(* transport (make_api_request).                                           *)
(*                                                                         *)
(* One invocation runs at a time (the handlers share no state).  A step of *)
(* the model is either the start of an invocation, up to its first GET, or *)
(* one GET attempt of make_api_request together with everything the code   *)
(* does until the next GET or until the invocation returns.                *)
(*                                                                         *)
(* Python strings are sequences of tokens.  Python values whose type the   *)
(* remote payload decides are tagged records (PyList, PyInt).  The remote  *)
(* service is unconstrained: every GET may fail, and a GET that succeeds   *)
(* may carry any payload, well formed or not.  Article nodes of a fetched  *)
(* document carry at most a PMID child; all other fields take the default. *)
(***************************************************************************)
EXTENDS Integers, Sequences, FiniteSets, TLC

VARIABLES
    pc,       \* "idle" | "search" | "fetch" | "done": position of the invocation
    op,       \* the function invoked
    args,     \* its arguments
    reqs,     \* the make_api_request calls of this invocation, in order
    found,    \* <<what retrieve_article_ids gave its caller>>, <<>> before it returns
    root,     \* <<what fetch_article_metadata gave its caller>>, <<>> before it returns
    result,   \* what the invoked function gave its caller
    slept     \* time spent in time.sleep during this invocation

vars == <<pc, op, args, reqs, found, root, result, slept>>

----------------------------------------------------------------------------
(* Config, lines 27-32, and the literals of get_article_statistics *)

RETRY_ATTEMPTS == 3
RETRY_DELAY == 1
ARTICLE_VIEW_BASE == "https://pubmed.ncbi.nlm.nih.gov"
STATS_RETMAX == 100
STATS_SAMPLE == 10
CITATION_AUTHORS == 6
SAMPLE_TITLES == 5

(* Bounds of the model *)

MaxIds == 11       \* identifiers in one search payload: 0..MaxIds
MaxTotal == 2      \* the count field of a search payload: 0..MaxTotal
MaxDoc == 2        \* article nodes in one fetched document: 0..MaxDoc
MaxLimit == 2      \* result_limit / max_count: -1..MaxLimit
MaxStrLen == 2     \* length of article_id / researcher
MaxNames == 1      \* length of topics / researchers

----------------------------------------------------------------------------
(* Python values *)

Min(a, b) == IF a < b THEN a ELSE b

PyList(s) == [kind |-> "list", items |-> s]
PyInt == [kind |-> "int", items |-> <<>>]    \* a non-zero number where a list is expected

\* bool(v): a list is true when non-empty, the non-zero number is true
Truthy(v) == v.kind = "int" \/ v.items # <<>>

\* v[:k]; FALSE stands for the TypeError a number raises
Sliceable(v) == v.kind = "list"
Slice(v, k) == PyList(SubSeq(v.items, 1, Min(Len(v.items), k)))

SeqsUpTo(S, n) == UNION {[1..k -> S] : k \in 0..n}

RECURSIVE Join(_, _)
\* sep.join(parts), parts a sequence of strings (token sequences)
Join(parts, sep) ==
    IF parts = <<>> THEN <<>>
    ELSE IF Len(parts) = 1 THEN parts[1]
    ELSE parts[1] \o <<sep>> \o Join(Tail(parts), sep)

RECURSIVE lstrip(_)
lstrip(s) == IF s # <<>> /\ Head(s) = " " THEN lstrip(Tail(s)) ELSE s

RECURSIVE rstrip(_)
rstrip(s) ==
    IF s # <<>> /\ s[Len(s)] = " " THEN rstrip(SubSeq(s, 1, Len(s) - 1)) ELSE s

strip(s) == rstrip(lstrip(s))

\* IsBlank without the strip() test
IsBlank_empty_only(s) == s = <<>>

\* `not s or not s.strip()`, lines 308 and 404
IsBlank(s) == s = <<>> \/ strip(s) = <<>>

----------------------------------------------------------------------------
(* QueryBuilder, lines 38-56 *)

Tagged(names, tag) == [i \in 1..Len(names) |-> names[i] \o <<tag>>]

create_author_clause(names) ==
    IF names = <<>> THEN <<>>
    ELSE <<"(">> \o Join(Tagged(names, "[Author]"), " OR ") \o <<")">>

create_keyword_clause(terms) ==
    IF terms = <<>> THEN <<>>
    ELSE <<"(">> \o Join(Tagged(terms, "[Title/Abstract]"), " OR ") \o <<")">>

combine_clauses(clauses) == Join(SelectSeq(clauses, LAMBDA c : c # <<>>), " AND ")

\* lines 248-250
find_articles_query(topics, researchers) ==
    combine_clauses(<<create_author_clause(researchers), create_keyword_clause(topics)>>)

\* line 411
get_article_statistics_query(researcher) == researcher \o <<"[Author]">>

----------------------------------------------------------------------------
(* What a call gives its caller: a value, or an exception *)

Raised == [raised |-> TRUE]
Response(body) == [raised |-> FALSE, body |-> body]

(* make_api_request, lines 58-87: the loop condition and the give-up test *)

\* line 76
MayAttempt(attempt, retries) == attempt < retries

\* Exhausted, giving up one attempt early
Exhausted_early(attempt, retries) == attempt >= retries - 1

\* line 83
Exhausted(attempt, retries) == attempt = retries

\* a call of make_api_request as it starts, lines 73-74: `gets` counts the
\* calls of requests.get, `hist` keeps how each ended, `response` is <<>>
\* until the call returns <<the body>>
NewRequest(endpoint, params) ==
    [endpoint |-> endpoint, params |-> params, attempt |-> 0, gets |-> 0,
     hist |-> <<>>, state |-> "running", response |-> <<>>]

\* lines 78-80: requests.get answered with `body`
Returned(request, body) ==
    [request EXCEPT !.gets = @ + 1, !.hist = Append(@, "ok"), !.state = "returned",
                    !.response = <<body>>]

\* lines 78-82: requests.get raised
Failed(request) ==
    [request EXCEPT !.attempt = @ + 1, !.gets = @ + 1, !.hist = Append(@, "fail")]

\* SearchParams with a fixed retmax in place of max_count
SearchParams_fixed(search_query, max_count) ==
    [db |-> "pubmed", term |-> search_query, retmax |-> STATS_RETMAX,
     retmode |-> "json", usehistory |-> "y"]

\* lines 106-112
SearchParams(search_query, max_count) ==
    [db |-> "pubmed", term |-> search_query, retmax |-> max_count,
     retmode |-> "json", usehistory |-> "y"]

\* lines 140-144
FetchParams(article_ids) ==
    [db |-> "pubmed", id |-> Join(article_ids, ","), retmode |-> "xml"]

\* SearchRequest sent to the fetch endpoint
SearchRequest_fetch(search_query, max_count) ==
    NewRequest("efetch.fcgi", SearchParams(search_query, max_count))

\* line 114
SearchRequest(search_query, max_count) ==
    NewRequest("esearch.fcgi", SearchParams(search_query, max_count))

\* line 146
FetchRequest(article_ids) == NewRequest("efetch.fcgi", FetchParams(article_ids))

----------------------------------------------------------------------------
(* The remote service: payloads of a GET that succeeded *)

\* n identifiers, each a string
FirstIds(n) == [i \in 1..n |-> <<ToString(i)>>]

IdLists == {PyInt} \cup {PyList(FirstIds(n)) : n \in 0..MaxIds}

\* a body response.json() or the field reads of lines 117-118 choke on
SearchGarbage == [kind |-> "garbage", idlist |-> PyList(<<>>), count |-> 0]

SearchJson(idlist, count) == [kind |-> "json", idlist |-> idlist, count |-> count]

\* an article node: the text of its PMID child, "" when it has none
Nodes == {[PMID |-> t] : t \in {"", "7"}}

\* a body ET.fromstring rejects
FetchGarbage == [kind |-> "garbage", nodes |-> <<>>]

FetchXml(nodes) == [kind |-> "xml", nodes |-> nodes]

----------------------------------------------------------------------------
(* retrieve_article_ids and fetch_article_metadata once the transport answered *)

NoIds == [raised |-> FALSE, ids |-> PyList(<<>>), total |-> 0]

\* retrieve_article_ids_result without the except clause of line 122
retrieve_article_ids_result_raise(outcome) ==
    IF outcome.raised \/ outcome.body.kind = "garbage"
    THEN [raised |-> TRUE, ids |-> PyList(<<>>), total |-> 0]
    ELSE [raised |-> FALSE, ids |-> outcome.body.idlist, total |-> outcome.body.count]

\* lines 114-124; `outcome` is what make_api_request gave
retrieve_article_ids_result(outcome) ==
    IF outcome.raised THEN NoIds
    ELSE IF outcome.body.kind = "garbage" THEN NoIds
    ELSE [raised |-> FALSE, ids |-> outcome.body.idlist, total |-> outcome.body.count]

None == [kind |-> "none", nodes |-> <<>>]
Element(nodes) == [kind |-> "doc", nodes |-> nodes]

Absent == [raised |-> FALSE, root |-> None]

\* lines 146-151
fetch_article_metadata_result(outcome) ==
    IF outcome.raised THEN Absent
    ELSE IF outcome.body.kind = "garbage" THEN Absent
    ELSE [raised |-> FALSE, root |-> Element(outcome.body.nodes)]

----------------------------------------------------------------------------
(* ArticleParser, lines 153-224, and generate_citation, lines 346-389 *)

\* lines 155-158
extract_text(found_text, default) == IF found_text # "" THEN found_text ELSE default

\* lines 171-189, for a node with at most a PMID child
ArticleRecord(node) ==
    LET pmid == extract_text(node.PMID, "N/A") IN
    [id |-> pmid,
     url |-> <<ARTICLE_VIEW_BASE, "/", pmid>>,
     title |-> extract_text("", "N/A"),
     journal |-> [name |-> extract_text("", "N/A"), volume |-> extract_text("", "N/A"),
                  issue |-> extract_text("", "N/A"), pages |-> extract_text("", "N/A")],
     publication_date |-> extract_text("", "N/A"),
     doi |-> extract_text("", "N/A"),
     abstract |-> extract_text("", "N/A"),
     authors |-> <<>>,
     keywords |-> <<>>]

\* lines 161-193
process_articles(root_element) ==
    IF root_element.kind = "none" THEN <<>>
    ELSE [i \in 1..Len(root_element.nodes) |-> ArticleRecord(root_element.nodes[i])]

\* lines 356-386
generate_citation(article) ==
    LET shown == Min(Len(article.authors), CITATION_AUTHORS)
        named == [i \in 1..shown |->
                    <<article.authors[i].lastname, " ", article.authors[i].initials>>]
        author_list == IF Len(article.authors) > CITATION_AUTHORS
                       THEN Append(named, <<"et al">>) ELSE named
        authors_text == Join(author_list, ", ")
        journal == article.journal
    IN  authors_text
        \o <<". ", article.title, ". ", journal.name, ". ", article.publication_date,
             ";", journal.volume>>
        \o (IF journal.issue # "" THEN <<"(", journal.issue, ")">> ELSE <<>>)
        \o (IF journal.pages # "" THEN <<":", journal.pages>> ELSE <<>>)
        \o <<".">>
        \o (IF article.doi # "" THEN <<" doi: ", article.doi>> ELSE <<>>)

----------------------------------------------------------------------------
(* The envelopes of the tool handlers *)

\* an exception on its way out of a handler body
Escaping == [status |-> "raised"]

\* lines 253-257
find_articles_invalid ==
    [status |-> "error",
     message |-> <<"Search requires at least one topic or researcher name">>,
     articles |-> <<>>]

\* find_articles_empty reporting the count of the search
find_articles_empty_total(total_count) ==
    [status |-> "success",
     message |-> <<"No articles found matching the search criteria">>,
     total_available |-> total_count,
     articles |-> <<>>]

\* lines 263-268
find_articles_empty(total_count) ==
    [status |-> "success",
     message |-> <<"No articles found matching the search criteria">>,
     total_available |-> 0,
     articles |-> <<>>]

\* find_articles_found without the retrieved count
find_articles_found_short(total_count, articles, elapsed_time) ==
    [status |-> "success",
     message |-> <<"Found ", ToString(total_count), " articles, returning ",
                   ToString(Len(articles))>>,
     total_available |-> total_count,
     performance |-> [elapsed_seconds |-> elapsed_time],
     articles |-> articles]

\* lines 277-286
find_articles_found(total_count, articles, elapsed_time) ==
    [status |-> "success",
     message |-> <<"Found ", ToString(total_count), " articles, returning ",
                   ToString(Len(articles))>>,
     total_available |-> total_count,
     retrieved |-> Len(articles),
     performance |-> [elapsed_seconds |-> elapsed_time],
     articles |-> articles]

\* lines 243 and 287-293
find_articles_try(body) ==
    IF body.status = "raised"
    THEN [status |-> "error", message |-> <<"str(e)">>, articles |-> <<>>]
    ELSE body

\* lines 309-312
get_publication_details_invalid ==
    [status |-> "error", message |-> <<"Article ID is required">>]

\* get_publication_details_body taking the last article, and no test of `articles`
get_publication_details_body_last(article_id, root_element) ==
    IF root_element.kind = "none"
    THEN [status |-> "error",
          message |-> <<"Failed to retrieve data for article ID: ">> \o article_id]
    ELSE LET articles == process_articles(root_element)
             last == IF articles = <<>> THEN ArticleRecord([PMID |-> ""])
                     ELSE articles[Len(articles)]
         IN  [status |-> "success",
              publication |-> last @@ [citation |-> generate_citation(last)]]

\* lines 317-338
get_publication_details_body(article_id, root_element) ==
    IF root_element.kind = "none"
    THEN [status |-> "error",
          message |-> <<"Failed to retrieve data for article ID: ">> \o article_id]
    ELSE LET articles == process_articles(root_element) IN
         IF articles = <<>>
         THEN [status |-> "error",
               message |-> <<"No article found with ID: ">> \o article_id]
         ELSE [status |-> "success",
               publication |-> articles[1] @@ [citation |-> generate_citation(articles[1])]]

\* lines 306 and 339-344
get_publication_details_try(body) ==
    IF body.status = "raised"
    THEN [status |-> "error", message |-> <<"str(e)">>]
    ELSE body

\* lines 405-408
get_article_statistics_invalid ==
    [status |-> "error", message |-> <<"Researcher name is required">>]

\* lines 419-448; the journal and year tallies are left out, the nodes of the
\* model carrying neither
get_article_statistics_found(researcher, total_count, articles) ==
    [status |-> "success",
     researcher |-> researcher,
     total_publications |-> total_count,
     recent_sample_size |-> Len(articles),
     sample_titles |-> [i \in 1..Min(Len(articles), SAMPLE_TITLES) |-> articles[i].title]]

\* lines 450-455
get_article_statistics_empty(researcher, total_count) ==
    [status |-> "success",
     researcher |-> researcher,
     total_publications |-> 0,
     message |-> <<"No publications found for this researcher">>]

\* get_article_statistics_try without the except clause
get_article_statistics_try_none(body) == body

\* lines 402 and 457-462
get_article_statistics_try(body) ==
    IF body.status = "raised"
    THEN [status |-> "error", message |-> <<"str(e)">>]
    ELSE body

----------------------------------------------------------------------------
(* What a handler does once retrieve_article_ids has returned `f` *)

Return(env) == [do |-> "return", env |-> env, ids |-> PyList(<<>>)]
Fetch(article_ids) == [do |-> "fetch", env |-> Escaping, ids |-> article_ids]

\* lines 260-271
find_articles_next(f) ==
    IF f.raised THEN Return(Escaping)
    ELSE IF ~Truthy(f.ids) THEN Return(find_articles_empty(f.total))
    ELSE Fetch(f.ids)

\* get_article_statistics_next without the [:10]
get_article_statistics_next_unsliced(researcher, f) ==
    IF f.raised THEN Return(Escaping)
    ELSE IF Truthy(f.ids)
         THEN IF Sliceable(f.ids) THEN Fetch(f.ids) ELSE Return(Escaping)
         ELSE Return(get_article_statistics_empty(researcher, f.total))

\* lines 414-418 and 449-455
get_article_statistics_next(researcher, f) ==
    IF f.raised THEN Return(Escaping)
    ELSE IF Truthy(f.ids)
         THEN IF Sliceable(f.ids) THEN Fetch(Slice(f.ids, STATS_SAMPLE))
              ELSE Return(Escaping)
         ELSE Return(get_article_statistics_empty(researcher, f.total))

\* lines 136-146: "absent" without a request, or the request is made.  Joining
\* a number raises TypeError inside the try of line 139.
fetch_article_metadata_entry(article_ids) ==
    IF ~Truthy(article_ids) THEN "absent"
    ELSE IF article_ids.kind # "list" THEN "absent"
    ELSE "request"

\* lines 100-101
retrieve_article_ids_entry(search_query) ==
    IF search_query = <<>> THEN "empty" ELSE "request"

----------------------------------------------------------------------------
(* Steps *)

Step(p, rq, f, rt, r) ==
    /\ pc' = p
    /\ reqs' = rq
    /\ found' = f
    /\ root' = rt
    /\ result' = r

\* fetch_article_metadata has returned `t` (lines 271-286, 315-338, 418-448)
AfterFetch(rq, f, t) ==
    LET env ==
          CASE op = "find_articles" ->
                 find_articles_try(
                    IF t.raised THEN Escaping
                    ELSE find_articles_found(f[1].total, process_articles(t.root), slept))
            [] op = "get_publication_details" ->
                 get_publication_details_try(
                    IF t.raised THEN Escaping
                    ELSE get_publication_details_body(args.article_id, t.root))
            [] op = "get_article_statistics" ->
                 get_article_statistics_try(
                    IF t.raised THEN Escaping
                    ELSE get_article_statistics_found(args.researcher, f[1].total,
                                                      process_articles(t.root)))
            [] OTHER -> [status |-> IF t.raised THEN "raised" ELSE "returned"]
    IN  Step("done", rq, f, <<t>>, env)

\* fetch_article_metadata(article_ids) is called, lines 136-146
CallFetch(rq, f, article_ids) ==
    IF fetch_article_metadata_entry(article_ids) = "request"
    THEN Step("fetch",
              Append(rq, FetchRequest(article_ids.items)),
              f, root, result)
    ELSE AfterFetch(rq, f, Absent)

\* retrieve_article_ids has returned `f` (lines 260-268, 414-455)
AfterSearch(rq, f) ==
    IF op \in {"find_articles", "get_article_statistics"}
    THEN LET next == IF op = "find_articles" THEN find_articles_next(f)
                     ELSE get_article_statistics_next(args.researcher, f)
             try(env) == IF op = "find_articles" THEN find_articles_try(env)
                         ELSE get_article_statistics_try(env)
         IN  IF next.do = "fetch" THEN CallFetch(rq, <<f>>, next.ids)
             ELSE Step("done", rq, <<f>>, root, try(next.env))
    ELSE Step("done", rq, <<f>>, root,
              [status |-> IF f.raised THEN "raised" ELSE "returned"])

\* retrieve_article_ids(search_query, max_count) is called, lines 100-114
CallSearch(search_query, max_count) ==
    IF retrieve_article_ids_entry(search_query) = "request"
    THEN Step("search",
              Append(reqs, SearchRequest(search_query, max_count)),
              found, root, result)
    ELSE AfterSearch(reqs, NoIds)

Names == {<<>>, <<"a">>}
Chars == {" ", "a"}
Limits == (0 - 1)..MaxLimit

Init ==
    /\ pc = "idle"
    /\ op = "none"
    /\ args = <<>>
    /\ reqs = <<>>
    /\ found = <<>>
    /\ root = <<>>
    /\ result = [status |-> "none"]
    /\ slept = 0

\* lines 227-257
find_articles(topics, researchers, result_limit) ==
    /\ pc = "idle"
    /\ op' = "find_articles"
    /\ args' = [topics |-> topics, researchers |-> researchers, result_limit |-> result_limit]
    /\ slept' = slept
    /\ LET query == find_articles_query(topics, researchers) IN
       IF query = <<>>
       THEN Step("done", reqs, found, root, find_articles_try(find_articles_invalid))
       ELSE CallSearch(query, result_limit)

\* lines 296-315
get_publication_details(article_id) ==
    /\ pc = "idle"
    /\ op' = "get_publication_details"
    /\ args' = [article_id |-> article_id]
    /\ slept' = slept
    /\ IF IsBlank(article_id)
       THEN Step("done", reqs, found, root,
                 get_publication_details_try(get_publication_details_invalid))
       ELSE CallFetch(reqs, found, PyList(<<article_id>>))

\* lines 392-414
get_article_statistics(researcher) ==
    /\ pc = "idle"
    /\ op' = "get_article_statistics"
    /\ args' = [researcher |-> researcher]
    /\ slept' = slept
    /\ IF IsBlank(researcher)
       THEN Step("done", reqs, found, root,
                 get_article_statistics_try(get_article_statistics_invalid))
       ELSE CallSearch(get_article_statistics_query(researcher), STATS_RETMAX)

\* lines 89-114, called on its own
retrieve_article_ids(search_query, max_count) ==
    /\ pc = "idle"
    /\ op' = "retrieve_article_ids"
    /\ args' = [search_query |-> search_query, max_count |-> max_count]
    /\ slept' = slept
    /\ CallSearch(search_query, max_count)

\* lines 126-146, called on its own
fetch_article_metadata(article_ids) ==
    /\ pc = "idle"
    /\ op' = "fetch_article_metadata"
    /\ args' = [article_ids |-> article_ids]
    /\ slept' = slept
    /\ CallFetch(reqs, found, article_ids)

Last == reqs[Len(reqs)]

\* lines 76-80 and 115-121: a GET of the search succeeds with `body`
SearchGetOk(body) ==
    /\ pc = "search"
    /\ MayAttempt(Last.attempt, RETRY_ATTEMPTS)
    /\ UNCHANGED <<op, args, slept>>
    /\ AfterSearch([reqs EXCEPT ![Len(reqs)] = Returned(Last, body)],
                   retrieve_article_ids_result(Response(body)))

\* lines 76-80 and 147-148: a GET of the fetch succeeds with `body`
FetchGetOk(body) ==
    /\ pc = "fetch"
    /\ MayAttempt(Last.attempt, RETRY_ATTEMPTS)
    /\ UNCHANGED <<op, args, slept>>
    /\ AfterFetch([reqs EXCEPT ![Len(reqs)] = Returned(Last, body)],
                  found,
                  fetch_article_metadata_result(Response(body)))

\* lines 76-87: a GET raises requests.RequestException
GetFails ==
    /\ pc \in {"search", "fetch"}
    /\ MayAttempt(Last.attempt, RETRY_ATTEMPTS)
    /\ UNCHANGED <<op, args>>
    /\ LET tried == Failed(Last) IN
           IF Exhausted(tried.attempt, RETRY_ATTEMPTS)
           THEN /\ slept' = slept
                /\ LET rq == [reqs EXCEPT ![Len(reqs)] = [tried EXCEPT !.state = "raised"]]
                   IN  IF pc = "search"
                       THEN AfterSearch(rq, retrieve_article_ids_result(Raised))
                       ELSE AfterFetch(rq, found, fetch_article_metadata_result(Raised))
           ELSE /\ slept' = slept + RETRY_DELAY
                /\ Step(pc, [reqs EXCEPT ![Len(reqs)] = tried], found, root, result)

\* the response is handed over and nothing is kept
Discard ==
    /\ pc = "done"
    /\ pc' = "idle"
    /\ op' = "none"
    /\ args' = <<>>
    /\ reqs' = <<>>
    /\ found' = <<>>
    /\ root' = <<>>
    /\ result' = [status |-> "none"]
    /\ slept' = 0

Next ==
    \/ \E topics \in SeqsUpTo(Names, MaxNames), researchers \in SeqsUpTo(Names, MaxNames),
          result_limit \in Limits :
          find_articles(topics, researchers, result_limit)
    \/ \E article_id \in SeqsUpTo(Chars, MaxStrLen) : get_publication_details(article_id)
    \/ \E researcher \in SeqsUpTo(Chars, MaxStrLen) : get_article_statistics(researcher)
    \/ \E search_query \in {<<>>, <<"q">>}, max_count \in Limits :
          retrieve_article_ids(search_query, max_count)
    \/ \E n \in 0..MaxDoc : fetch_article_metadata(PyList(FirstIds(n)))
    \/ SearchGetOk(SearchGarbage)
    \/ \E idlist \in IdLists, count \in 0..MaxTotal : SearchGetOk(SearchJson(idlist, count))
    \/ FetchGetOk(FetchGarbage)
    \/ \E nodes \in SeqsUpTo(Nodes, MaxDoc) : FetchGetOk(FetchXml(nodes))
    \/ GetFails
    \/ Discard

Spec == Init /\ [][Next]_vars

----------------------------------------------------------------------------
(* Properties *)

Tools == {"find_articles", "get_publication_details", "get_article_statistics"}
Searchers == {"find_articles", "get_article_statistics", "retrieve_article_ids"}

RECURSIVE SumGets(_)
SumGets(rq) == IF rq = <<>> THEN 0 ELSE Head(rq).gets + SumGets(Tail(rq))

\* the calls of requests.get so far in this invocation
GetCalls == SumGets(reqs)

AllSpaces(s) == \A i \in 1..Len(s) : s[i] = " "

FailsThenOk(k) == [j \in 1..(k + 1) |-> IF j <= k THEN "fail" ELSE "ok"]
AllFail(k) == [j \in 1..k |-> "fail"]

\* the search answered with a well-formed body
SearchAnswered ==
    /\ reqs # <<>>
    /\ reqs[1].endpoint = "esearch.fcgi"
    /\ reqs[1].state = "returned"
    /\ reqs[1].response[1].kind = "json"

\* the search request ended without a usable body
SearchFailed ==
    /\ reqs # <<>>
    /\ reqs[1].endpoint = "esearch.fcgi"
    /\ \/ reqs[1].state = "raised"
       \/ reqs[1].state = "returned" /\ reqs[1].response[1].kind = "garbage"

\* the fetch request ended without a usable body
FetchFailed ==
    /\ reqs # <<>>
    /\ Last.endpoint = "efetch.fcgi"
    /\ \/ Last.state = "raised"
       \/ Last.state = "returned" /\ Last.response[1].kind = "garbage"

\* C1: a call of make_api_request makes one GET per attempt; it returns the
\* response exactly when k failures (k < RETRY_ATTEMPTS) were followed by a
\* success, after k+1 GETs; it raises exactly when RETRY_ATTEMPTS GETs failed;
\* while it runs, fewer than RETRY_ATTEMPTS GETs were made and all failed.
C1_RetryBudget ==
    \A i \in 1..Len(reqs) :
       LET r == reqs[i] IN
       /\ r.gets = Len(r.hist)
       /\ r.gets <= RETRY_ATTEMPTS
       /\ (r.state = "returned") <=> (\E k \in 0..(RETRY_ATTEMPTS - 1) : r.hist = FailsThenOk(k))
       /\ (r.state = "raised") <=> (r.hist = AllFail(RETRY_ATTEMPTS))
       /\ (r.state = "running") <=> (\E k \in 0..(RETRY_ATTEMPTS - 1) : r.hist = AllFail(k))
       /\ (r.state = "returned") <=> (r.response # <<>>)

\* fail, fail, succeed on the search, then a fetch that failed on every attempt
C1_Witness ==
    /\ Len(reqs) = 2
    /\ reqs[1].hist = <<"fail", "fail", "ok">>
    /\ reqs[1].gets = 3
    /\ reqs[2].state = "raised"
    /\ reqs[2].gets = RETRY_ATTEMPTS

\* C2: a tool invocation that has ended returned an envelope whose status is
\* "success" or "error"; one that has not ended has returned nothing and waits
\* on a GET that has attempts left.
C2_EnvelopeAlways ==
    op \in Tools =>
       IF pc = "done" THEN result.status \in {"success", "error"}
       ELSE /\ result.status = "none"
            /\ pc \in {"search", "fetch"}
            /\ Last.state = "running"
            /\ Last.attempt < RETRY_ATTEMPTS

\* the slice of a malformed identifier list raised inside get_article_statistics
C2_Witness ==
    /\ op = "get_article_statistics"
    /\ pc = "done"
    /\ found # <<>>
    /\ found[1].ids = PyInt
    /\ result.status = "error"

\* C3: retrieve_article_ids and fetch_article_metadata never raise; when the
\* request exhausted its retries or its body could not be parsed, the first
\* returns ([], 0) and the second returns None.
C3_FailSoft ==
    /\ found # <<>> =>
          /\ ~found[1].raised
          /\ SearchFailed => (found[1].ids = PyList(<<>>) /\ found[1].total = 0)
    /\ root # <<>> =>
          /\ ~root[1].raised
          /\ FetchFailed => root[1].root = None
    /\ (pc = "done" /\ op \in {"retrieve_article_ids", "fetch_article_metadata"})
          => result.status = "returned"

\* a search that failed on every attempt, and its caller has the value
C3_Witness ==
    /\ op = "retrieve_article_ids"
    /\ pc = "done"
    /\ reqs # <<>>
    /\ reqs[1].state = "raised"
    /\ found = <<NoIds>>

\* the arguments fail validation
InvalidArgs ==
    \/ op = "find_articles" /\ args.topics = <<>> /\ args.researchers = <<>>
    \/ op = "get_publication_details" /\ AllSpaces(args.article_id)
    \/ op = "get_article_statistics" /\ AllSpaces(args.researcher)

\* C4: an invocation whose arguments fail validation has ended with a
\* status "error" envelope, made no request and no GET.
C4_ValidationNoNetwork ==
    InvalidArgs =>
       /\ pc = "done"
       /\ result.status = "error"
       /\ reqs = <<>>
       /\ GetCalls = 0
       /\ found = <<>>
       /\ root = <<>>

\* a whitespace-only article_id
C4_Witness ==
    /\ op = "get_publication_details"
    /\ args.article_id = <<" ", " ">>
    /\ pc = "done"
    /\ result.status = "error"

\* C5: find_articles whose search gave no identifier returns status
\* "success", total_available 0 and no articles, and makes no fetch.
C5_EmptySearchIsSuccess ==
    (op = "find_articles" /\ found # <<>> /\ found[1].ids = PyList(<<>>)) =>
       /\ pc = "done"
       /\ result.status = "success"
       /\ result.total_available = 0
       /\ result.articles = <<>>
       /\ Len(reqs) = 1

\* the remote matched something, sent no identifier; and the downgraded failure
C5_Witness ==
    /\ op = "find_articles"
    /\ pc = "done"
    /\ SearchAnswered
    /\ reqs[1].response[1].idlist = PyList(<<>>)
    /\ reqs[1].response[1].count > 0
    /\ result.status = "success"

\* C6: get_publication_details with a non-blank article_id makes one fetch for
\* that id; it returns "success" exactly when the fetch gave a document with
\* an article node, the publication then being the record of the first node
\* plus its citation; otherwise it returns "error".
C6_DetailsOutcome ==
    (op = "get_publication_details" /\ pc = "done" /\ ~AllSpaces(args.article_id)) =>
       LET r == reqs[1]
           got == /\ r.state = "returned"
                  /\ r.response[1].kind = "xml"
                  /\ r.response[1].nodes # <<>>
       IN  /\ Len(reqs) = 1
           /\ r.endpoint = "efetch.fcgi"
           /\ r.params.id = args.article_id
           /\ result.status \in {"success", "error"}
           /\ (result.status = "success") <=> got
           /\ got =>
                LET first == ArticleRecord(r.response[1].nodes[1]) IN
                /\ DOMAIN result.publication = DOMAIN first \cup {"citation"}
                /\ \A f \in DOMAIN first : result.publication[f] = first[f]
                /\ result.publication.id =
                      (IF r.response[1].nodes[1].PMID = "" THEN "N/A"
                       ELSE r.response[1].nodes[1].PMID)
                /\ result.publication.citation = generate_citation(first)

\* a document of two different article nodes
C6_Witness ==
    /\ op = "get_publication_details"
    /\ pc = "done"
    /\ result.status = "success"
    /\ Len(reqs[1].response[1].nodes) = 2
    /\ reqs[1].response[1].nodes[1] # reqs[1].response[1].nodes[2]

FindSucceeded == op = "find_articles" /\ pc = "done" /\ result.status = "success"

\* C7 as stated: every "success" result of find_articles carries status,
\* message, total available count, retrieved count, elapsed time and articles.
C7_AllFieldsAlways ==
    FindSucceeded =>
       {"status", "message", "total_available", "retrieved", "performance", "articles"}
          \subseteq DOMAIN result

\* C7, amended: every "success" result of find_articles carries status,
\* message, total available count and articles; it carries the retrieved count
\* and the elapsed time exactly when the search gave a non-empty identifier list.
C7_FieldsByBranch ==
    FindSucceeded =>
       /\ {"status", "message", "total_available", "articles"} \subseteq DOMAIN result
       /\ IF Truthy(found[1].ids)
          THEN /\ DOMAIN result = {"status", "message", "total_available", "retrieved",
                                   "performance", "articles"}
               /\ DOMAIN result.performance = {"elapsed_seconds"}
               /\ result.retrieved = Len(result.articles)
          ELSE DOMAIN result = {"status", "message", "total_available", "articles"}

\* identifiers found, articles fetched after one retry
C7_Witness ==
    /\ FindSucceeded
    /\ Truthy(found[1].ids)
    /\ result.retrieved = 2
    /\ result.performance.elapsed_seconds = RETRY_DELAY

MaxCountAsked ==
    CASE op = "retrieve_article_ids" -> args.max_count
      [] op = "find_articles" -> args.result_limit
      [] op = "get_article_statistics" -> 100

SearchReturnedList == op \in Searchers /\ found # <<>> /\ found[1].ids.kind = "list"

\* the remote sent no more identifiers than the retmax it was sent
RemoteHonoursRetmax ==
    (SearchAnswered /\ reqs[1].response[1].idlist.kind = "list") =>
       Len(reqs[1].response[1].idlist.items) <= reqs[1].params.retmax

C10_SearchThenFetch ==
    op \in {"find_articles", "get_article_statistics"} =>
       /\ Len(reqs) <= 2
       /\ Len(reqs) >= 1 => reqs[1].endpoint = "esearch.fcgi"
       /\ \A i \in 1..(Len(reqs) - 1) : reqs[i].state # "running"
       /\ Len(reqs) = 2 =>
             /\ reqs[2].endpoint = "efetch.fcgi"
             /\ SearchAnswered
             /\ reqs[1].response[1].idlist.kind = "list"
             /\ reqs[1].response[1].idlist.items # <<>>
       /\ (pc = "search") <=> (Len(reqs) = 1 /\ reqs[1].state = "running")
       /\ (pc = "fetch") <=> (Len(reqs) = 2 /\ reqs[2].state = "running")

\* the search returned on its second attempt and the fetch is under way
C10_Witness ==
    /\ op = "find_articles"
    /\ pc = "fetch"
    /\ Len(reqs) = 2
    /\ reqs[1].hist = <<"fail", "ok">>
    /\ reqs[2].gets = 1

====
